---- MODULE Spec2Model ----
(***************************************************************************)
(* A model of the MarkovSeedGenerator classes of this repository:          *)
(*   variant "cc2_2" is src/m-cc2-2.py (dead-end fallback, json/pickle),   *)
(*   variant "cc3"   is src/m-cc3.py   (whole-attempt retry, 80% accept).  *)
(* A text is a sequence of one-character strings; the table self.model is  *)
(* a function from keys (texts) to successor lists (texts), with the order *)
(* of its keys kept beside it.  Every draw is a random.choice on the       *)
(* random module's process-wide stream, which random.seed restarts.        *)
(***************************************************************************)
EXTENDS Integers, Sequences, FiniteSets, TLC

VARIABLES
    variant,      \* which class was constructed
    n,            \* self.n
    model,        \* self.model
    keys,         \* list(self.model.keys()): the keys in insertion order
    pc,           \* position inside generate, "idle" between calls
    length,       \* generate's argument length
    max_attempts, \* generate's argument max_attempts
    seed,         \* generate's local seed
    output,       \* generate's local output
    next_char,    \* generate's local next_char (cc2_2), Unbound until assigned
    i,            \* iterations of the step loop done so far
    j,            \* redraws done in the current dead end (cc2_2)
    attempt,      \* the attempt loop's variable (cc3)
    result,       \* outcome of the last call
    file,         \* content of the model file on disk
    call,         \* history: the last call made, its name and arguments
    fed,          \* history: characters of text trained into the table
    trained,      \* history: the texts trained into the table since it was last empty
    hist,         \* history: the running / last generate call
    rng,          \* the state of the random module's process-wide stream
    tape,         \* history: the draws a seeded stream has yielded, from its start
    first         \* history: a completed generate call on a seeded stream

vars == << variant, n, model, keys, pc, length, max_attempts, seed, output,
           next_char, i, j, attempt, result, file, call, fed, trained, hist,
           rng, tape, first >>

\* generate's arguments and locals
genargs == << length, max_attempts >>
genlocals == << seed, output, next_char, i, j, attempt >>

(***************************************************************************)
(* Bounds of the model.                                                    *)
(***************************************************************************)
MaxN == 2
MaxTextLen == 4
MaxPairLen == 3
MaxCorpus == 4
MaxLength == 5
MaxAttempts == 2
MaxMinTransitions == 1
MaxExternalKeys == 2
MaxWalk == 1

(***************************************************************************)
(* Characters and texts.                                                   *)
(***************************************************************************)
Alphabet == {"a", "b", "B", " ", "\n"}
Letters == {"a", "b"}
FallbackChar == " "
Unbound == "<unbound>"
NoKey == << "<none>" >>

Variants == {"cc2_2", "cc3"}

\* the texts the two-corpora runs and the generating runs train on
SmallAlphabet == {"a", "B", " "}
GenAlphabet == {"a", "B"}

Texts(chars, maxLen) == UNION {[1..k -> chars] : k \in 0..maxLen}

\* stands for the texts trained before a generate call, which are not kept
Forgotten == << "<forgotten>" >>

Range(s) == {s[x] : x \in DOMAIN s}

Take(s, k) == SubSeq(s, 1, IF k < Len(s) THEN k ELSE Len(s))

LastN(s, k) == SubSeq(s, (IF Len(s) - k < 0 THEN 0 ELSE Len(s) - k) + 1, Len(s))

\* str.lower on one character
LowerChar(c) == IF c = "B" THEN "b" ELSE c

\* str.lower
Lower(t) == [x \in DOMAIN t |-> LowerChar(t[x])]

\* the characters str.strip removes and \s matches
IsSpace(c) == c \in {" ", "\n"}

RECURSIVE LStrip(_)
LStrip(t) == IF t # << >> /\ IsSpace(Head(t)) THEN LStrip(Tail(t)) ELSE t

RECURSIVE RStrip(_)
RStrip(t) ==
    IF t # << >> /\ IsSpace(t[Len(t)]) THEN RStrip(SubSeq(t, 1, Len(t) - 1)) ELSE t

\* str.strip
Strip(t) == RStrip(LStrip(t))

\* re.sub(r"\s+", " ", t): every maximal run of whitespace becomes one space
RECURSIVE CollapseSpaces(_)
CollapseSpaces(t) ==
    IF t = << >> THEN << >>
    ELSE IF IsSpace(Head(t))
         THEN << " " >> \o CollapseSpaces(LStrip(t))
         ELSE << Head(t) >> \o CollapseSpaces(Tail(t))

\* t.replace(old, " ") for old in "\n", "\t", "\r"
ReplaceNewlines(t) == [x \in DOMAIN t |-> IF t[x] = "\n" THEN " " ELSE t[x]]

\* m-cc2-2.py line 71
Normalize22(text) == CollapseSpaces(Strip(Lower(text)))

\* m-cc3.py _normalize_text
Normalize3(text) == Strip(ReplaceNewlines(Lower(text)))

(***************************************************************************)
(* The table.                                                              *)
(***************************************************************************)
EmptyTable == [k \in {} |-> << >>]

\* self.model[k] of a defaultdict(list), read without inserting
Get(m, k) == IF k \in DOMAIN m THEN m[k] ELSE << >>

\* mutant: the list is replaced, not appended to
AppendToReplacing(m, key, c) ==
    [k \in DOMAIN m \cup {key} |-> IF k = key THEN << c >> ELSE m[k]]

\* self.model[key].append(c)
AppendTo(m, key, c) ==
    [k \in DOMAIN m \cup {key} |-> IF k = key THEN Append(Get(m, key), c) ELSE m[k]]

\* mutant: the window takes the successor in
KeyAtWide(t, nn, x) == SubSeq(t, x + 1, x + nn + 1)

\* the key taken at 0-based start index x: text[x : x + n]
KeyAt(t, nn, x) == SubSeq(t, x + 1, x + nn)

\* the successor taken at 0-based start index x: text[x + n]
NextCharAt(t, nn, x) == t[x + nn + 1]

\* mutant: the last transition is left out
TrainRangeShort(t, nn) == IF Len(t) - nn - 1 > 0 THEN Len(t) - nn - 1 ELSE 0

\* range(len(text) - n)
TrainRange(t, nn) == IF Len(t) - nn > 0 THEN Len(t) - nn ELSE 0

\* the training loop, from 0-based index x on
RECURSIVE TrainFrom(_, _, _, _)
TrainFrom(m, t, nn, x) ==
    IF x >= TrainRange(t, nn) THEN m
    ELSE TrainFrom(AppendTo(m, KeyAt(t, nn, x), NextCharAt(t, nn, x)), t, nn, x + 1)

TrainLoop(m, t, nn) == TrainFrom(m, t, nn, 0)

Usable(m) == {k \in DOMAIN m : Len(m[k]) > 0}

\* the number of successor entries of the table
RECURSIVE EntriesOf(_, _)
EntriesOf(m, ks) ==
    IF ks = {} THEN 0
    ELSE LET k == CHOOSE x \in ks : TRUE IN Len(m[k]) + EntriesOf(m, ks \ {k})

Entries(m) == EntriesOf(m, DOMAIN m)

\* the length of the shortest text that trains as many entries as m holds
FedOf(m, nn) == IF DOMAIN m = {} THEN 0 ELSE Entries(m) + nn

\* the history of a table whose trained texts are not kept
Forget(m) == IF DOMAIN m = {} THEN << >> ELSE << Forgotten >>

\* list(self.model.keys()) after self.model[key] has created a missing entry
KeysWith(ks, key) == IF \E x \in DOMAIN ks : ks[x] = key THEN ks ELSE Append(ks, key)

\* the key order after the training loop, from 0-based index x on
RECURSIVE TrainKeysFrom(_, _, _, _)
TrainKeysFrom(ks, t, nn, x) ==
    IF x >= TrainRange(t, nn) THEN ks
    ELSE TrainKeysFrom(KeysWith(ks, KeyAt(t, nn, x)), t, nn, x + 1)

TrainKeys(ks, t, nn) == TrainKeysFrom(ks, t, nn, 0)

\* the table after self.model[k] is evaluated: a defaultdict(list) creates the
\* entry of a missing key, with an empty list
Subscripted(m, k) ==
    IF k \in DOMAIN m THEN m
    ELSE [x \in DOMAIN m \cup {k} |-> IF x = k THEN << >> ELSE m[x]]

\* mutant: the subscript is evaluated without the membership test before it
TestedBare(m, k) == Subscripted(m, k)

\* the table after "seed in self.model and self.model[seed]" is evaluated: the
\* subscript is reached only for a key that is in the table
Tested(m, k) == IF k \in DOMAIN m THEN Subscripted(m, k) ELSE m

\* the table after self.model[k] is evaluated for each key k of the list
RECURSIVE SubscriptedEach(_, _)
SubscriptedEach(m, ks) ==
    IF ks = << >> THEN m ELSE SubscriptedEach(Subscripted(m, Head(ks)), Tail(ks))

\* the key order once the table is m2: a created entry comes last
KeysIn(ks, m2) ==
    IF \A k \in DOMAIN m2 : \E x \in DOMAIN ks : ks[x] = k THEN ks
    ELSE Append(ks, CHOOSE k \in DOMAIN m2 : \A x \in DOMAIN ks : ks[x] # k)

\* the table after self.model.get(k, []): dict.get creates no entry
Gotten(m, k) == m

\* the keys of the list ks that have successors, in the list's order
UsableKeys(m, ks) == SelectSeq(ks, LAMBDA k : Len(m[k]) > 0)

(***************************************************************************)
(* The random module's stream.  random.seed(s) restarts it; the values a   *)
(* stream seeded with s yields are a fixed function of s and of the draws  *)
(* requested since, recorded in tape[s] as they are first seen.            *)
(***************************************************************************)
RandomSeeds == {42}

\* the stream of a process in which random.seed was not called
Unseeded == [seeded |-> FALSE, seed |-> 0, pos |-> 0, sync |-> FALSE]

\* the stream after random.seed(rs): no draw made, in step with tape[rs]
Reseeded(rs) == [seeded |-> TRUE, seed |-> rs, pos |-> 0, sync |-> TRUE]

NoTape == [rs \in RandomSeeds |-> << >>]

\* mutant: the draw is made from a source that random.seed does not reach
ChoiceElsewhere(size, r) == r \in 1..size /\ UNCHANGED << rng, tape >>

\* random.choice of a list of the given size returns its r-th element.  On a
\* seeded stream whose draws so far are those of the tape, a draw the tape holds
\* is repeated, and a draw past its end is recorded; a request of another size
\* than the recorded one leaves the recorded course of the stream.
Choice(size, r) ==
    /\ r \in 1..size
    /\ IF ~rng.seeded
       THEN UNCHANGED << rng, tape >>
       ELSE LET known == tape[rng.seed]
                replay == rng.sync /\ rng.pos < Len(known)
                extend == rng.sync /\ rng.pos = Len(known)
                same == replay /\ known[rng.pos + 1].size = size
            IN  /\ same => r = known[rng.pos + 1].idx
                /\ rng' = [rng EXCEPT !.pos = @ + 1,
                                      !.sync = IF replay THEN same ELSE @]
                /\ tape' = IF extend
                           THEN [tape EXCEPT ![rng.seed] =
                                    Append(known, [size |-> size, idx |-> r])]
                           ELSE tape

\* a step that draws nothing
NoChoice == UNCHANGED << rng, tape >>

\* a call that draws nothing
NoDraw == UNCHANGED << rng, tape, first >>

(***************************************************************************)
(* Outcomes of a call.                                                     *)
(***************************************************************************)
NoResult == [kind |-> "nothing", val |-> << >>]
Running == [kind |-> "running", val |-> << >>]
Done == [kind |-> "return", val |-> << >>]
ReturnedStr(s) == [kind |-> "str", val |-> s]
ReturnedNone == [kind |-> "None", val |-> << >>]
ReturnedFalse == [kind |-> "False", val |-> << >>]
ReturnedTrue == [kind |-> "True", val |-> << >>]
Raised(e) == [kind |-> "raise", val |-> << e >>]

Call(op, text, mt) == [op |-> op, text |-> text, mt |-> mt]

\* generate's locals do not outlive the call
LocalsGone ==
    /\ seed' = NoKey
    /\ output' = << >>
    /\ next_char' = Unbound
    /\ i' = 0
    /\ j' = 0
    /\ attempt' = 0

\* a call other than generate
NotGenerating ==
    /\ length' = 0
    /\ max_attempts' = 0
    /\ UNCHANGED genlocals

\* history of a generate call: the last step's kind, the key a redraw found and
\* the character appended; the start key; the attempts started and the attempts
\* that ended with less than 80% of length; the table, its key order and the
\* stream as the call found them; the last window that was a dead end
HistInit ==
    [step |-> "none", key |-> NoKey, ch |-> Unbound, start |-> NoKey,
     started |-> 0, below |-> 0,
     table |-> EmptyTable, order |-> << >>, pos |-> 0, sync |-> FALSE,
     dead |-> NoKey]

\* history of a generate call: the table and its key order, and the stream's
\* position, as the call found them
HistCall ==
    [HistInit EXCEPT !.table = model, !.order = keys, !.pos = rng.pos,
                     !.sync = rng.sync]

\* no generate call is recorded
FirstInit ==
    [set |-> FALSE, again |-> FALSE, seed |-> 0, pos |-> 0,
     model |-> EmptyTable, keys |-> << >>, length |-> 0, max_attempts |-> 0,
     result |-> NoResult]

\* a generate call starts: it is a later call than the recorded one, if any
Starts == [first EXCEPT !.again = first.set]

\* a generate call ends with outcome res: the first call to end on a seeded
\* stream is the recorded one
Ends(res) ==
    IF rng.seeded /\ ~first.set
    THEN first' = [first EXCEPT !.set = TRUE, !.seed = rng.seed,
                                !.pos = hist.pos, !.model = hist.table,
                                !.keys = hist.order, !.length = length,
                                !.max_attempts = max_attempts, !.result = res]
    ELSE UNCHANGED first

(***************************************************************************)
(* Files.                                                                  *)
(***************************************************************************)
NoFile == [fmt |-> "none", data |-> << >>, saved |-> << >>, fed |-> 0]
TruncatedFile == [fmt |-> "empty", data |-> << >>, saved |-> << >>, fed |-> 0]


\* json.dump(dict): the object's members, one << key, array >> pair per key,
\* in the dict's order
JsonDump(m, ks) == [x \in DOMAIN ks |-> << ks[x], m[ks[x]] >>]

\* json.load: the dict of the object's members (a repeated name keeps its last value)
JsonLoad(d) ==
    [k \in {d[x][1] : x \in DOMAIN d} |->
        d[CHOOSE x \in DOMAIN d : d[x][1] = k /\ \A y \in DOMAIN d : d[y][1] = k => y <= x][2]]

\* the key order of the dict json.load builds: a name takes its place where
\* it first occurs
RECURSIVE JsonLoadKeys(_)
JsonLoadKeys(d) ==
    IF d = << >> THEN << >>
    ELSE KeysWith(JsonLoadKeys(SubSeq(d, 1, Len(d) - 1)), d[Len(d)][1])

\* pickle.dump / pickle.load of a dict of lists of str
PickleDump(m, ks) == [obj |-> m, keys |-> ks]
PickleLoad(d) == d.obj
PickleLoadKeys(d) == d.keys

\* the orders a file may list the keys S in
Orders(S) ==
    {ks \in [1..Cardinality(S) -> S] : \A x, y \in 1..Cardinality(S) : ks[x] = ks[y] => x = y}

\* m-cc3.py uses json in save_model and load_model and never imports it
JsonImported3 == FALSE

KeysOf(nn) == [1..nn -> Letters]
SuccLists == {<< >>} \cup {<< c >> : c \in Letters}
\* tables a model file not written by save_model may hold
ExternalTables(nn) ==
    UNION {[D -> SuccLists] : D \in {E \in SUBSET KeysOf(nn) : Cardinality(E) <= MaxExternalKeys}}

(***************************************************************************)
(* Construction.                                                           *)
(***************************************************************************)
Init ==
    /\ variant \in Variants
    /\ n \in 1..MaxN
    /\ model = EmptyTable
    /\ keys = << >>
    /\ pc = "idle"
    /\ length = 0
    /\ max_attempts = 0
    /\ seed = NoKey
    /\ output = << >>
    /\ next_char = Unbound
    /\ i = 0
    /\ j = 0
    /\ attempt = 0
    /\ result = NoResult
    /\ file = NoFile
    /\ fed = 0
    /\ call = Call("init", << >>, 0)
    /\ trained = << >>
    /\ hist = HistInit
    /\ rng = Unseeded
    /\ tape = NoTape
    /\ first = FirstInit

\* MarkovSeedGenerator(n=nn, random_seed=rs) of m-cc2-2.py, constructed in a
\* process that has a generator already: the new generator's table is empty,
\* and random.seed(rs) restarts the stream every generator draws from
Construct22(nn, rs) ==
    /\ variant = "cc2_2"
    /\ pc = "idle"
    /\ n' = nn
    /\ model' = EmptyTable
    /\ keys' = << >>
    /\ result' = NoResult
    /\ call' = Call("init", << >>, 0)
    /\ fed' = 0
    /\ trained' = << >>
    /\ hist' = HistInit
    /\ rng' = Reseeded(rs)
    /\ NotGenerating
    /\ UNCHANGED << variant, pc, file, tape, first >>

(***************************************************************************)
(* train                                                                   *)
(***************************************************************************)
\* m-cc2-2.py train: the two checks are made on the text as given
Rejects22(text, nn) == text = << >> \/ Len(text) < nn

Train22(text) ==
    /\ variant = "cc2_2"
    /\ pc = "idle"
    /\ call' = Call("train", text, 0)
    /\ hist' = HistInit
    /\ IF Rejects22(text, n)
       THEN /\ result' = Raised("ValueError")
            /\ UNCHANGED << model, keys, fed, trained >>
       ELSE /\ model' = TrainLoop(model, Normalize22(text), n)
            /\ keys' = TrainKeys(keys, Normalize22(text), n)
            /\ result' = Done
            /\ fed' = fed + Len(text)
            /\ trained' = Append(trained, text)
    /\ NotGenerating
    /\ NoDraw
    /\ UNCHANGED << variant, n, pc, file >>

\* m-cc3.py train: emptiness is checked on the text as given, the length after
\* normalization
Rejects3(text, nn, mt) == text = << >> \/ Len(Normalize3(text)) < nn + mt

Train3(text, mt) ==
    /\ variant = "cc3"
    /\ pc = "idle"
    /\ call' = Call("train", text, mt)
    /\ hist' = HistInit
    /\ IF Rejects3(text, n, mt)
       THEN /\ result' = Raised("ValueError")
            /\ UNCHANGED << model, keys, fed, trained >>
       ELSE /\ model' = TrainLoop(model, Normalize3(text), n)
            /\ keys' = TrainKeys(keys, Normalize3(text), n)
            /\ result' = Done
            /\ fed' = fed + Len(text)
            /\ trained' = Append(trained, text)
    /\ NotGenerating
    /\ NoDraw
    /\ UNCHANGED << variant, n, pc, file >>

(***************************************************************************)
(* reset_model (m-cc2-2.py; m-cc3.py has none)                             *)
(***************************************************************************)
ResetModel ==
    /\ variant = "cc2_2"
    /\ pc = "idle"
    /\ model' = EmptyTable
    /\ keys' = << >>
    /\ result' = Done
    /\ call' = Call("reset_model", << >>, 0)
    /\ fed' = 0
    /\ trained' = << >>
    /\ hist' = HistInit
    /\ NotGenerating
    /\ NoDraw
    /\ UNCHANGED << variant, n, pc, file >>

(***************************************************************************)
(* generate, m-cc2-2.py                                                    *)
(***************************************************************************)
\* range(length - self.n)
Steps(len, nn) == IF len - nn > 0 THEN len - nn ELSE 0

\* seed in self.model and self.model[seed]
HasSuccessors(m, k) == k \in DOMAIN m /\ m[k] # << >>

\* seed[1:] + next_char
Shift(k, c) == Tail(k) \o << c >>

\* the list random.choice draws the start key from in m-cc2-2.py
StartKeys22(ks) == ks

\* not self.model
Untrained(m) == DOMAIN m = {}

Generate22Call(len, att) ==
    /\ variant = "cc2_2"
    /\ pc = "idle"
    /\ call' = Call("generate", << >>, 0)
    /\ trained' = Forget(model)
    /\ length' = len
    /\ max_attempts' = att
    /\ first' = Starts
    /\ IF Untrained(model)
       THEN /\ result' = Raised("RuntimeError")
            /\ pc' = "idle"
            /\ hist' = HistCall
            /\ NoChoice
            /\ UNCHANGED genlocals
       ELSE /\ \E r \in DOMAIN StartKeys22(keys) :
                 LET k == StartKeys22(keys)[r]
                 IN  /\ Choice(Len(StartKeys22(keys)), r)
                     /\ seed' = k
                     /\ output' = k
                     /\ hist' = [HistCall EXCEPT !.start = k]
            /\ result' = Running
            /\ pc' = "loop"
            /\ UNCHANGED << next_char, i, j, attempt >>
    /\ UNCHANGED << variant, n, model, keys, file, fed >>

\* one iteration of the step loop: a successor is appended, or the dead-end
\* branch is entered
Generate22Step ==
    /\ variant = "cc2_2"
    /\ pc = "loop"
    /\ i < Steps(length, n)
    /\ model' = Tested(model, seed)
    /\ keys' = KeysIn(keys, model')
    /\ IF HasSuccessors(model, seed)
       THEN /\ \E r \in DOMAIN model[seed] :
                 LET c == model[seed][r]
                 IN  /\ Choice(Len(model[seed]), r)
                     /\ next_char' = c
                     /\ output' = Append(output, c)
                     /\ seed' = Shift(seed, c)
                     /\ hist' = [hist EXCEPT !.step = "succ", !.key = seed, !.ch = c]
            /\ i' = i + 1
            /\ UNCHANGED << pc, j >>
       ELSE /\ pc' = "redraw"
            /\ j' = 0
            /\ hist' = [hist EXCEPT !.step = "deadend", !.key = NoKey, !.ch = Unbound,
                                    !.dead = seed]
            /\ NoChoice
            /\ UNCHANGED << seed, output, next_char, i >>
    /\ UNCHANGED << variant, n, length, max_attempts, attempt, result,
                    file, call, fed, trained, first >>

\* one pass of "for _ in range(max_attempts)": a key is drawn, and the loop is
\* left when it has successors
Generate22Redraw ==
    /\ variant = "cc2_2"
    /\ pc = "redraw"
    /\ j < max_attempts
    /\ \E r \in DOMAIN keys :
         LET k == keys[r]
         IN  /\ Choice(Len(keys), r)
             /\ seed' = k
             /\ model' = Tested(model, k)
             /\ keys' = KeysIn(keys, model')
             /\ IF HasSuccessors(model, k)
                THEN /\ pc' = "append"
                     /\ hist' = [hist EXCEPT !.key = k]
                     /\ UNCHANGED j
                ELSE /\ j' = j + 1
                     /\ UNCHANGED << pc, hist >>
    /\ UNCHANGED << variant, n, length, max_attempts, output, next_char, i,
                    attempt, result, file, call, fed, trained, first >>

\* the loop's else clause: no pass left the loop
Generate22Fallback ==
    /\ variant = "cc2_2"
    /\ pc = "redraw"
    /\ j >= max_attempts
    /\ next_char' = FallbackChar
    /\ pc' = "append"
    /\ UNCHANGED << variant, n, model, keys, length, max_attempts, seed, output, i, j,
                    attempt, result, file, call, fed, trained, hist, rng, tape, first >>

\* the character output.append(next_char) appends after the redraw loop: the
\* value next_char has at that point
Appended22(nc) == nc

\* output.append(next_char); seed = seed[1:] + next_char
Generate22Append ==
    /\ variant = "cc2_2"
    /\ pc = "append"
    /\ LET kind == IF hist.key # NoKey THEN "redraw" ELSE "fallback"
           c == Appended22(next_char)
       IN  /\ hist' = [hist EXCEPT !.step = kind, !.ch = c]
           /\ IF c = Unbound
              THEN /\ result' = Raised("UnboundLocalError")
                   /\ pc' = "idle"
                   /\ LocalsGone
                   /\ Ends(Raised("UnboundLocalError"))
              ELSE /\ output' = Append(output, c)
                   /\ seed' = Shift(seed, c)
                   /\ i' = i + 1
                   /\ pc' = "loop"
                   /\ UNCHANGED << result, next_char, j, attempt, first >>
    /\ NoChoice
    /\ UNCHANGED << variant, n, model, keys, length, max_attempts, file, call, fed, trained >>

\* "".join(output)[:length]
Generate22Return ==
    /\ variant = "cc2_2"
    /\ pc = "loop"
    /\ i >= Steps(length, n)
    /\ result' = ReturnedStr(Take(output, length))
    /\ pc' = "idle"
    /\ LocalsGone
    /\ Ends(ReturnedStr(Take(output, length)))
    /\ NoChoice
    /\ UNCHANGED << variant, n, model, keys, length, max_attempts, file, call, fed, trained, hist >>

(***************************************************************************)
(* generate, m-cc3.py                                                      *)
(***************************************************************************)
\* [k for k in self.model.keys() if len(self.model[k]) > 0]
StartKeys3(m, ks) == UsableKeys(m, ks)

\* mutant: a buffer of exactly 80% is refused
Accepts3Strict(out, len) == 5 * Len(out) > 4 * len

\* len(output) >= length * 0.8  (the float comparison agrees with this
\* integer one for every length up to 20000)
Accepts3(out, len) == 5 * Len(out) >= 4 * len

\* history: 1 when the buffer holds less than 80% of len characters, else 0
Below80(out, len) == IF 5 * Len(out) < 4 * len THEN 1 ELSE 0

Generate3Call(len, att) ==
    /\ variant = "cc3"
    /\ pc = "idle"
    /\ call' = Call("generate", << >>, 0)
    /\ trained' = Forget(model)
    /\ hist' = HistCall
    /\ length' = len
    /\ max_attempts' = att
    /\ first' = Starts
    /\ IF Untrained(model)
       THEN /\ result' = Raised("RuntimeError")
            /\ pc' = "idle"
       ELSE /\ result' = Running
            /\ pc' = "attempt"
    /\ NoChoice
    /\ UNCHANGED << variant, n, model, keys, genlocals, file, fed >>

\* an attempt starts: the start key is drawn; random.choice of an empty list
\* raises IndexError, which the attempt's except clause swallows
Generate3Attempt ==
    /\ variant = "cc3"
    /\ pc = "attempt"
    /\ attempt < max_attempts
    /\ model' = SubscriptedEach(model, keys)
    /\ keys' = KeysIn(keys, model')
    /\ IF StartKeys3(model, keys) = << >>
       THEN /\ attempt' = attempt + 1
            /\ hist' = [hist EXCEPT !.started = hist.started + 1]
            /\ NoChoice
            /\ UNCHANGED << seed, output, i, pc >>
       ELSE /\ \E r \in DOMAIN StartKeys3(model, keys) :
                 LET k == StartKeys3(model, keys)[r]
                 IN  /\ Choice(Len(StartKeys3(model, keys)), r)
                     /\ seed' = k
                     /\ output' = k
                     /\ hist' = [hist EXCEPT !.started = hist.started + 1, !.start = k]
            /\ i' = 0
            /\ pc' = "walk"
            /\ UNCHANGED attempt
    /\ UNCHANGED << variant, n, length, max_attempts, next_char, j, result,
                    file, call, fed, trained, first >>

\* one iteration of the step loop, or its end
Generate3Step ==
    /\ variant = "cc3"
    /\ pc = "walk"
    /\ IF i < Steps(length, n)
       THEN LET possible_chars == Get(model, LastN(seed, n))
            IN  /\ model' = Gotten(model, LastN(seed, n))
                /\ IF possible_chars = << >>
                   THEN /\ pc' = "accept"
                        /\ NoChoice
                        /\ UNCHANGED << seed, output, i >>
                   ELSE /\ \E r \in DOMAIN possible_chars :
                             LET c == possible_chars[r]
                             IN  /\ Choice(Len(possible_chars), r)
                                 /\ output' = Append(output, c)
                                 /\ seed' = Shift(seed, c)
                        /\ i' = i + 1
                        /\ UNCHANGED pc
       ELSE /\ pc' = "accept"
            /\ NoChoice
            /\ UNCHANGED << model, seed, output, i >>
    /\ keys' = KeysIn(keys, model')
    /\ UNCHANGED << variant, n, length, max_attempts, next_char, j, attempt,
                    result, file, call, fed, trained, hist, first >>

\* the acceptance test: return the joined output, or go on to the next attempt
Generate3Accept ==
    /\ variant = "cc3"
    /\ pc = "accept"
    /\ IF Accepts3(output, length)
       THEN /\ result' = ReturnedStr(output)
            /\ pc' = "idle"
            /\ LocalsGone
            /\ Ends(ReturnedStr(output))
            /\ UNCHANGED hist
       ELSE /\ attempt' = attempt + 1
            /\ pc' = "attempt"
            /\ hist' = [hist EXCEPT !.below = hist.below + Below80(output, length)]
            /\ UNCHANGED << result, seed, output, next_char, i, j, first >>
    /\ NoChoice
    /\ UNCHANGED << variant, n, model, keys, length, max_attempts, file, call, fed, trained >>

\* the attempt loop is over: return None
Generate3Exhausted ==
    /\ variant = "cc3"
    /\ pc = "attempt"
    /\ attempt >= max_attempts
    /\ result' = ReturnedNone
    /\ pc' = "idle"
    /\ LocalsGone
    /\ Ends(ReturnedNone)
    /\ NoChoice
    /\ UNCHANGED << variant, n, model, keys, length, max_attempts, file, call, fed, trained, hist >>

(***************************************************************************)
(* save_model / load_model                                                 *)
(***************************************************************************)
Formats == {"pickle", "json", "xml"}

\* what save_model of m-cc2-2.py writes; saved and fed are history fields
Written22(fmt, m, ks) ==
    [fmt |-> fmt,
     data |-> IF fmt = "pickle" THEN PickleDump(m, ks) ELSE JsonDump(m, ks),
     saved |-> m,
     fed |-> fed]

\* what load_model of m-cc2-2.py reads back from a file of the same format
Read22(f) == IF f.fmt = "pickle" THEN PickleLoad(f.data) ELSE JsonLoad(f.data)

\* the key order of the dict load_model reads back
ReadKeys22(f) == IF f.fmt = "pickle" THEN PickleLoadKeys(f.data) ELSE JsonLoadKeys(f.data)

Save22(fmt) ==
    /\ variant = "cc2_2"
    /\ pc = "idle"
    /\ call' = Call("save_model", << fmt >>, 0)
    /\ hist' = HistInit
    /\ IF fmt \in {"pickle", "json"}
       THEN /\ file' = Written22(fmt, model, keys)
            /\ result' = Done
       ELSE /\ result' = Raised("ValueError")
            /\ UNCHANGED file
    /\ NotGenerating
    /\ NoDraw
    /\ UNCHANGED << variant, n, model, keys, pc, fed, trained >>

Load22(fmt) ==
    /\ variant = "cc2_2"
    /\ pc = "idle"
    /\ call' = Call("load_model", << fmt >>, 0)
    /\ hist' = HistInit
    /\ IF fmt \notin {"pickle", "json"}
       THEN /\ result' = Raised("ValueError")
            /\ UNCHANGED << model, keys, fed, trained >>
       ELSE IF file.fmt = "none"
       THEN /\ result' = Raised("FileNotFoundError")
            /\ UNCHANGED << model, keys, fed, trained >>
       ELSE IF file.fmt # fmt
       THEN /\ result' = Raised("DecodeError")
            /\ UNCHANGED << model, keys, fed, trained >>
       ELSE /\ model' = Read22(file)
            /\ keys' = ReadKeys22(file)
            /\ result' = Done
            /\ fed' = file.fed
            /\ trained' = Forget(model')
    /\ NotGenerating
    /\ NoDraw
    /\ UNCHANGED << variant, n, pc, file >>

\* load_model of a json file that save_model did not write
LoadExternal22(t) ==
    /\ variant = "cc2_2"
    /\ pc = "idle"
    /\ call' = Call("load_external", << "json" >>, 0)
    /\ hist' = HistInit
    /\ \E ks \in Orders(DOMAIN t) :
         /\ model' = JsonLoad(JsonDump(t, ks))
         /\ keys' = JsonLoadKeys(JsonDump(t, ks))
    /\ result' = Done
    /\ fed' = FedOf(t, n)
    /\ trained' = Forget(model')
    /\ NotGenerating
    /\ NoDraw
    /\ UNCHANGED << variant, n, pc, file >>

\* m-cc3.py save_model: the file is opened for writing, then json.dump is called
Save3 ==
    /\ variant = "cc3"
    /\ pc = "idle"
    /\ call' = Call("save_model", << "json" >>, 0)
    /\ hist' = HistInit
    /\ IF JsonImported3
       THEN /\ file' = Written22("json", model, keys)
            /\ result' = ReturnedTrue
       ELSE /\ file' = [TruncatedFile EXCEPT !.saved = model, !.fed = fed]
            /\ result' = ReturnedFalse
    /\ NotGenerating
    /\ NoDraw
    /\ UNCHANGED << variant, n, model, keys, pc, fed, trained >>

\* m-cc3.py load_model: the file is opened, then json.load is called
Load3 ==
    /\ variant = "cc3"
    /\ pc = "idle"
    /\ call' = Call("load_model", << "json" >>, 0)
    /\ hist' = HistInit
    /\ IF file.fmt = "none"
       THEN /\ result' = Raised("FileNotFoundError")
            /\ UNCHANGED << model, keys, fed, trained >>
       ELSE IF ~JsonImported3
       THEN /\ result' = Raised("NameError")
            /\ UNCHANGED << model, keys, fed, trained >>
       ELSE IF file.fmt # "json"
       THEN /\ result' = Raised("DecodeError")
            /\ UNCHANGED << model, keys, fed, trained >>
       ELSE /\ model' = JsonLoad(file.data)
            /\ keys' = JsonLoadKeys(file.data)
            /\ result' = Done
            /\ fed' = file.fed
            /\ trained' = Forget(model')
    /\ NotGenerating
    /\ NoDraw
    /\ UNCHANGED << variant, n, pc, file >>

\* load_model of a json file that save_model did not write
LoadExternal3(t) ==
    /\ variant = "cc3"
    /\ pc = "idle"
    /\ call' = Call("load_external", << "json" >>, 0)
    /\ hist' = HistInit
    /\ IF ~JsonImported3
       THEN /\ result' = Raised("NameError")
            /\ UNCHANGED << model, keys, fed, trained >>
       ELSE /\ \E ks \in Orders(DOMAIN t) :
                 /\ model' = JsonLoad(JsonDump(t, ks))
                 /\ keys' = JsonLoadKeys(JsonDump(t, ks))
            /\ result' = Done
            /\ fed' = FedOf(t, n)
            /\ trained' = Forget(model')
    /\ NotGenerating
    /\ NoDraw
    /\ UNCHANGED << variant, n, pc, file >>

(***************************************************************************)
(* Specifications.                                                         *)
(***************************************************************************)
\* one train call on a text of the given set
TrainOn(texts, mts) ==
    \/ \E text \in texts : Train22(text)
    \/ \E text \in texts, mt \in mts : Train3(text, mt)

\* train calls of the generating runs: the corpus fed to one table is bounded
TrainGen ==
    TrainOn({t \in Texts(GenAlphabet, MaxCorpus) : fed + Len(t) <= MaxCorpus},
            {0})

Generate ==
    \/ \E len \in 0..MaxLength, att \in 0..MaxAttempts : Generate22Call(len, att)
    \/ Generate22Step
    \/ Generate22Redraw
    \/ Generate22Fallback
    \/ Generate22Append
    \/ Generate22Return
    \/ \E len \in 0..MaxLength, att \in 0..MaxAttempts : Generate3Call(len, att)
    \/ Generate3Attempt
    \/ Generate3Step
    \/ Generate3Accept
    \/ Generate3Exhausted

\* load_model of a file some other program wrote
LoadExternal ==
    \/ \E t \in ExternalTables(n) : LoadExternal22(t)
    \/ \E t \in ExternalTables(n) : LoadExternal3(t)

\* save_model and load_model on the generator's own file
Persist ==
    \/ \E fmt \in Formats : Save22(fmt)
    \/ \E fmt \in Formats : Load22(fmt)
    \/ Save3
    \/ Load3

\* train, generate and reset_model only: every table is a trained one
NextTrained == TrainGen \/ Generate \/ ResetModel

\* as NextTrained, and tables that were loaded
Next == NextTrained \/ LoadExternal

\* train, reset_model, save_model and load_model
NextPersist == TrainGen \/ ResetModel \/ Persist

\* the first call on a new generator is a train call, on any text
NextTrain == call.op = "init" /\ TrainOn(Texts(Alphabet, MaxTextLen), 0..MaxMinTransitions)

\* two train calls in a row on an empty table
NextPair == Len(trained) < 2 /\ TrainOn(Texts(SmallAlphabet, MaxPairLen), {0})

\* generators of m-cc2-2.py constructed with a random_seed, one after another
\* in one process or in two runs of the program: each is trained once, and
\* two generate calls are made in all
NextSeeded ==
    \/ \E rs \in RandomSeeds : Construct22(n, rs)
    \/ \E text \in Texts(GenAlphabet, MaxPairLen) :
          rng.seeded /\ fed = 0 /\ Train22(text)
    \/ \E len \in {n + 1, n + 1 + MaxWalk}, att \in {0, MaxAttempts} :
          rng.seeded /\ ~first.again /\ Generate22Call(len, att)
    \/ Generate22Step
    \/ Generate22Redraw
    \/ Generate22Fallback
    \/ Generate22Append
    \/ Generate22Return

Spec == Init /\ [][Next]_vars

SpecSeeded == Init /\ [][NextSeeded]_vars

SpecTrained == Init /\ [][NextTrained]_vars

SpecPersist == Init /\ [][NextPersist]_vars

SpecTrain == Init /\ [][NextTrain]_vars

SpecPair == Init /\ [][NextPair]_vars

(***************************************************************************)
(* Properties.                                                             *)
(***************************************************************************)
Returned == pc = "idle" /\ call.op = "generate"

\* C1: a generate call that returns a string, made with length >= n on a table
\* with at least one key whose successor list is non-empty, returns exactly
\* length characters, on walks that hit a dead end as on walks that do not.
C1_ExactLength ==
    (Returned /\ result.kind = "str" /\ length >= n /\ Usable(model) # {})
        => Len(result.val) = length

\* C2: in a step whose window is a dead end, when a redraw yields a key K with
\* a non-empty successor list the character appended is an element of table[K],
\* and when no redraw does the character appended is fallbackChar.
C2_DeadEndStep ==
    /\ hist.step = "redraw" => hist.ch \in Range(Get(model, hist.key))
    /\ hist.step = "fallback" => hist.ch = FallbackChar

\* C3: generate fails with nothing but ModelUntrained (RuntimeError): every dead
\* end is recovered inside generate, and the call ends by returning a string or
\* the exhausted outcome.
C3_OnlyModelUntrained ==
    (Returned /\ result.kind = "raise") => result.val = << "RuntimeError" >>

\* C4: generate raises ModelUntrained exactly when the table has no usable key
\* (it is empty, or every key maps to an empty successor list), and the start
\* key it selects is always a key with a non-empty successor list.
C4_UntrainedExactly ==
    call.op = "generate" =>
        /\ (result = Raised("RuntimeError")) <=> (Usable(model) = {})
        /\ hist.start # NoKey => HasSuccessors(model, hist.start)

\* C5: in the retrying generate of m-cc3.py on a trained table, at most
\* max_attempts attempts are started; a string is returned only from an attempt
\* whose buffer holds at least 80% of length, and from the first such attempt;
\* None is returned only after max_attempts attempts each ended below 80%.
C5_RetryBudget ==
    (variant = "cc3" /\ call.op = "generate") =>
        /\ hist.started <= max_attempts
        /\ hist.below <= hist.started
        /\ result.kind = "str" =>
              /\ 5 * Len(result.val) >= 4 * length
              /\ hist.below = hist.started - 1
        /\ result.kind = "None" =>
              /\ hist.started = max_attempts
              /\ hist.below = max_attempts
        /\ pc = "attempt" => hist.below = hist.started

\* an attempt below 80% was discarded and a later attempt was returned
C5_Witness ==
    /\ variant = "cc3"
    /\ Returned
    /\ result.kind = "str"
    /\ hist.below >= 1
    /\ Len(result.val) < length

\* the text train windows: the given text as the constructed class normalizes it
Normalized(text) == IF variant = "cc2_2" THEN Normalize22(text) ELSE Normalize3(text)

\* the successors of key k in text t: t[x + n] for each start index x, in
\* increasing order, at which the window of t is k
SuccessorsIn(t, k) ==
    LET starts == SelectSeq([p \in 1..(Len(t) - n) |-> p],
                            LAMBDA p : SubSeq(t, p, p + n - 1) = k)
    IN  [q \in DOMAIN starts |-> t[starts[q] + n]]

WindowsOf(t) == {SubSeq(t, p, p + n - 1) : p \in 1..(Len(t) - n)}

\* number of times c occurs in s
Count(c, s) == Cardinality({x \in DOMAIN s : s[x] = c})

\* C6: after train on an empty table with normalized text T, len(T) > n, the key
\* set is the set of windows T[i:i+n], 0 <= i <= len(T)-n-1, each key's list is
\* the sequence of T[i+n] over its windows in increasing i, duplicates kept, and
\* there are len(T) - n entries in all; a text of n+1 characters gives one key
\* with one successor.
C6_TrainedTable ==
    (Len(trained) = 1 /\ Len(Normalized(trained[1])) > n) =>
        LET T == Normalized(trained[1])
        IN  /\ DOMAIN model = WindowsOf(T)
            /\ \A k \in DOMAIN model : model[k] = SuccessorsIn(T, k)
            /\ Entries(model) = Len(T) - n
            /\ Len(T) = n + 1 =>
                  /\ Cardinality(DOMAIN model) = 1
                  /\ \A k \in DOMAIN model : Len(model[k]) = 1

\* a key was seen twice and another key once; the text was changed by normalizing
C6_Witness ==
    /\ Len(trained) = 1
    /\ Normalized(trained[1]) # trained[1]
    /\ Len(Normalized(trained[1])) > n
    /\ \E k \in DOMAIN model : Len(model[k]) = 2
    /\ Cardinality(DOMAIN model) = 2

NormalChars == {LowerChar(c) : c \in Alphabet}

\* C7: in every state reached by train (succeeding or failing), generate and
\* reset_model calls, every key of the table has length exactly n and every
\* successor list in it has length >= 1 and holds single characters only.
C7_KeysAndLists ==
    \A k \in DOMAIN model :
        /\ Len(k) = n
        /\ Len(model[k]) >= 1
        /\ \A x \in DOMAIN model[k] : model[k][x] \in NormalChars

\* a generate call has walked a table of several keys and returned
C7_Witness ==
    /\ Returned
    /\ result.kind = "str"
    /\ Len(result.val) > n
    /\ Cardinality(DOMAIN model) >= 2
    /\ \E k \in DOMAIN model : Len(model[k]) >= 2

\* what one train call on the text gives on an empty table
TrainedAlone(text) == TrainLoop(EmptyTable, Normalized(text), n)

SameBag(s, t) == \A c \in NormalChars : Count(c, s) = Count(c, t)

SubBag(s, t) == \A c \in NormalChars : Count(c, s) <= Count(c, t)

\* C8 as claimed: train(A) then train(B) on an empty table, A and B each
\* training at least one transition, gives the key set, and for every key the
\* multiset of successors, of one train on A + B.
C8_Additive ==
    (/\ Len(trained) = 2
     /\ Len(Normalized(trained[1])) > n
     /\ Len(Normalized(trained[2])) > n) =>
        LET single == TrainedAlone(trained[1] \o trained[2])
        IN  /\ DOMAIN model = DOMAIN single
            /\ \A k \in DOMAIN model : SameBag(model[k], single[k])

\* C8 as amended: train(A) then train(B) on an empty table gives, for every key,
\* the successors of train(A) alone followed by those of train(B) alone; its keys
\* are keys of one train on A + B and each key's multiset of successors is
\* contained in that key's multiset there (one train on A + B also records the
\* transitions that cross the boundary between A and B).
C8_SubAdditive ==
    Len(trained) = 2 =>
        LET single == TrainedAlone(trained[1] \o trained[2])
            a == TrainedAlone(trained[1])
            b == TrainedAlone(trained[2])
        IN  /\ DOMAIN model = DOMAIN a \cup DOMAIN b
            /\ \A k \in DOMAIN model : model[k] = Get(a, k) \o Get(b, k)
            /\ DOMAIN model \subseteq DOMAIN single
            /\ \A k \in DOMAIN model : SubBag(model[k], single[k])

\* both texts trained a key they share, and one train on A + B has more entries
C8_Witness ==
    /\ Len(trained) = 2
    /\ \E k \in DOMAIN TrainedAlone(trained[1]) : k \in DOMAIN TrainedAlone(trained[2])
    /\ Entries(TrainedAlone(trained[1] \o trained[2])) > Entries(model)

\* the normal form the claim compares: lowercased, whitespace runs collapsed,
\* trimmed
ClaimedNormalForm(text) == CollapseSpaces(Strip(Lower(text)))

\* C9: train fails with ValueError exactly for the texts whose normalized form
\* is empty or has fewer than n + minTransitions characters, the length being
\* taken after normalization; a text of raw length >= n whose normalized length
\* is < n is rejected.
C9_RejectsShort ==
    call.op = "train" =>
        ((result = Raised("ValueError")) <=>
            \/ ClaimedNormalForm(call.text) = << >>
            \/ Len(ClaimedNormalForm(call.text)) < n + call.mt)

\* C10: save_model of a trained table followed by load_model with the same
\* encoding leaves the generator holding the saved table: the same keys and for
\* every key the same successor sequence.
C10_RoundTrip ==
    LET sameEncoding == IF variant = "cc3" THEN file.fmt # "none"
                        ELSE file.fmt = call.text[1]
    IN  (call.op = "load_model" /\ sameEncoding /\ DOMAIN file.saved # {}) =>
            /\ result = Done
            /\ DOMAIN model = DOMAIN file.saved
            /\ \A k \in DOMAIN model : model[k] = file.saved[k]

\* the generate call that has just ended and the recorded one were made on
\* generators constructed with the same random_seed, with the same arguments
SameSeedAndArguments ==
    /\ variant = "cc2_2"
    /\ Returned
    /\ first.set
    /\ first.again
    /\ rng.seeded
    /\ rng.seed = first.seed
    /\ length = first.length
    /\ max_attempts = first.max_attempts

\* C11 as claimed: given the same random_seed at construction, the same table
\* and the same arguments, any two generate calls yield identical outputs.
C11_Deterministic ==
    (SameSeedAndArguments /\ model = first.model) => result = first.result

\* C11 as amended: two generate calls yield identical outputs when they are
\* made with the same arguments, on tables with the same successor lists and
\* the same keys in the same insertion order, and each starts at the same
\* point of the stream seeded with the same random_seed (as the first call
\* after construction does in two runs of the program).
C11_SameStream ==
    (/\ SameSeedAndArguments
     /\ model = first.model
     /\ keys = first.keys
     /\ hist.sync
     /\ hist.pos = first.pos) => result = first.result

\* a walk of several draws over a table that leaves a choice was repeated by a
\* generator constructed later with the same random_seed
C11_Witness ==
    /\ SameSeedAndArguments
    /\ model = first.model
    /\ keys = first.keys
    /\ hist.sync
    /\ hist.pos = first.pos
    /\ result.kind = "str"
    /\ Len(result.val) >= n + 2
    /\ \E k \in DOMAIN model : Cardinality(Range(model[k])) >= 2
    /\ Len(tape[rng.seed]) >= 3

\* C12: at the start of every iteration of generate's step loop the window
\* looked up in the table has length n and is the last n characters of the
\* output built so far, after successor steps and after dead-end recoveries.
C12_WindowIsTail ==
    /\ (variant = "cc2_2" /\ pc = "loop" /\ i < Steps(length, n)) =>
            (Len(seed) = n /\ seed = LastN(output, n))
    /\ (variant = "cc3" /\ pc = "walk" /\ i < Steps(length, n)) =>
            (Len(LastN(seed, n)) = n /\ LastN(seed, n) = LastN(output, n))

\* C13: generate is read-only on the table: whatever the outcome of the call,
\* the table has the keys (in the order) and the successor lists it had before
\* the call; looking up a dead-end window inserts no key with an empty list.
C13_ReadOnly ==
    call.op = "generate" => (model = hist.table /\ keys = hist.order)

\* a call looked up a window that is not a key of the table, recovered from the
\* dead end and returned a string
C13_Witness ==
    /\ Returned
    /\ result.kind = "str"
    /\ hist.dead # NoKey
    /\ hist.dead \notin DOMAIN model
    /\ hist.step \in {"redraw", "fallback"}

====
